---- MODULE Spec2Model ----
(***************************************************************************)
(* State machine of the useWebSocket hook                                  *)
(* (src/frontend/src/hooks/useWebSocket.ts): the session transport with    *)
(* its reconnect/backoff logic, the provider readiness state, the          *)
(* risk/crisis flags, the recording pipeline's gate to the socket and the  *)
(* end-of-session handshake.                                               *)
(*                                                                         *)
(* Refs (useRef) and React state (useState) are variables.  Every socket   *)
(* event handler, timer callback and exported function is one action.      *)
(* Functions that read React state read the value current at the call;    *)
(* callbacks created inside a call (timers, promise continuations) keep    *)
(* the values their closure captured.                                      *)
(***************************************************************************)
EXTENDS Integers, Sequences, FiniteSets, TLC

\* ------------------------------------------------------------ constants
MaxReconnect == 5
BaseDelay == 1000
MaxDelay == 30000
JitterRange == 1000
CloseNormal == 1000
CloseAbnormal == 1006
ClosePolicy == 1008
TargetRate == 16000
WorkletRatio == 3
TargetSamples == 800
MinSamples == 800
ScriptBufferSize == 4096
\* prev.slice(-19): the final transcripts kept before the new one is added
KeptFinals == 19

\* --------------------------------------------------------------- bounds
\* sockets still alive after ws.current was overwritten by a newer one
MaxOrphans == 1
\* reconnect timers still pending after reconnectTimeoutRef was overwritten
MaxStray == 1
\* grace timers (session_summary) pending at the same time
MaxGrace == 1
\* endSession calls in flight at the same time
MaxEndCalls == 1
\* startRecording calls in flight at the same time
MaxRecCalls == 2
\* audio resources of one kind that no ref names any more
MaxLeaked == 1

\* native samples fed to one resampler
MaxNative == 8192
\* inbound message events whose effect on the session data is followed
MaxDelivered == 2

\* Math.random() * 1000: the two ends of [0, 1000) that integers reach
Jitters == {0, JitterRange - 1}

VARIABLES
    ws,                     \* readyState of ws.current ("null" before the first socket)
    closeReq,               \* code and reason the client passed to ws.current.close()
    orphans,                \* readyStates of the live sockets ws.current no longer names
    isConnected,
    sttState,
    connectionError,
    connectionAttempts,
    isManuallyDisconnected,
    timerPending,           \* the timer reconnectTimeoutRef names is pending
    strayTimers,            \* pending reconnect timers the ref no longer names
    lastSched,              \* counter value and delay of the last reconnect scheduled
    failStreak,             \* abnormal closures in a row since the last open / manual restart
    isRecording,
    isRecordingActiveRef,
    audioStream,
    audioContext,
    audioProcessor,
    procInCur,              \* audioProcessor.current was created in audioContext.current
    ctxModule,              \* the worklet module is loaded in audioContext.current
    shadowProcessors,       \* connected nodes of audioContext.current no ref names
    leakedStreams,          \* microphone streams not stopped that no ref names
    leakedContexts,         \* audio contexts not closed that no ref names
    leakedProcessors,       \* connected nodes of those contexts that no ref names
    recPc,                  \* where each startRecording call in flight is suspended
    frameParity,            \* flips with every binary frame handed to ws.send
    isProcessingComplete,
    isCrisisMode,
    isSessionLocked,
    riskLevel,
    graceTimers,            \* pending 500 ms timers started by session_summary
    ends,                   \* the endSession calls in flight
    endCompleted,           \* how the last endSession promise resolved
    dspKind,                \* the capture strategy whose resampler is followed
    nativeRate,             \* audioContext.sampleRate
    sampleCounter,          \* native samples the resampler has consumed
    buffer,                 \* this.buffer of the worklet processor
    pcmBuffer,              \* pcmBuffer of the ScriptProcessor fallback
    frames,                 \* the frames the resampler has emitted, in order
    sentLens,               \* the lengths of the frames handed to ws.send, in order
    messages,               \* the message log
    finalTranscripts,
    sttInfo,                \* provider, lastPartial and error_message of sttState
    riskInfo,               \* the fields of currentRisk other than level
    audioConfig,
    hasReceivedTranscription,
    delivered,              \* message events the socket has delivered so far
    unmounted,              \* the cleanup function of the mount effect has run
    cleanup,                \* the 2000 ms timer that cleanup function starts
    pollTimers,             \* pending 100 ms timers of checkComplete chains
    pollPhase               \* flips with every run of a checkComplete timer

vars == <<ws, closeReq, orphans, isConnected, sttState, connectionError,
          connectionAttempts, isManuallyDisconnected, timerPending, strayTimers,
          lastSched, failStreak, isRecording, isRecordingActiveRef, audioStream,
          audioContext, audioProcessor, procInCur, ctxModule, shadowProcessors,
          leakedStreams, leakedContexts, leakedProcessors, recPc, frameParity,
          isProcessingComplete,
          isCrisisMode, isSessionLocked, riskLevel, graceTimers, ends, endCompleted,
          dspKind, nativeRate, sampleCounter, buffer, pcmBuffer, frames, sentLens,
          messages, finalTranscripts, sttInfo, riskInfo, audioConfig,
          hasReceivedTranscription, delivered,
          unmounted, cleanup, pollTimers, pollPhase>>

sockVars == <<ws, closeReq, orphans>>
timerVars == <<timerPending, strayTimers>>
histVars == <<lastSched, failStreak>>
graphVars == <<audioProcessor, procInCur, ctxModule, shadowProcessors>>
leakVars == <<leakedStreams, leakedContexts, leakedProcessors>>
audioVars == <<isRecording, isRecordingActiveRef, audioStream, audioContext,
               graphVars, leakVars>>
riskVars == <<isCrisisMode, isSessionLocked, riskLevel>>
endVars == <<ends, endCompleted>>
dspVars == <<dspKind, nativeRate, sampleCounter, buffer, pcmBuffer, frames, sentLens>>
dataVars == <<messages, finalTranscripts, sttInfo, riskInfo, audioConfig,
              hasReceivedTranscription, delivered>>
lifeVars == <<unmounted, cleanup, pollTimers, pollPhase>>

\* ------------------------------------------------------- value spaces
LiveStates == {"CONNECTING", "OPEN", "CLOSING"}
NoClose == [code |-> 0, reason |-> "none"]
NoSched == [k |-> -1, delay |-> 0]
NoOrphans == [s \in LiveStates |-> 0]
OrphanCount == orphans["CONNECTING"] + orphans["OPEN"] + orphans["CLOSING"]
IdleEnd == [pc |-> "idle", sent |-> FALSE, summary |-> FALSE]

ErrWsFailed == "WebSocket connection failed"
ErrPolicy == "Only one concurrent realtime session allowed on free tier."
ErrMaxAttempts == "Connection failed after 5 attempts. Please refresh the page."
ErrSttNotReady == "STT service not ready. Please wait for connection to establish."
ErrRecording == "Recording failed"
ErrFreeTier == "Free tier limit: Only one session allowed. Close other tabs or wait 15 seconds."

\* errorMsg.includes(kw) for the error texts the model sends
Includes(text, kw) ==
    CASE text = "free tier limit reached" -> kw \in {"free tier", "limit"}
      [] text = "too many concurrent sessions" -> kw = "concurrent"
      [] text = "rate limit exceeded" -> kw = "limit"
      [] OTHER -> FALSE

ErrorTexts == {"Server error", "free tier limit reached",
               "too many concurrent sessions", "rate limit exceeded"}

Msg(t) == [type |-> t, stt_state |-> "-", risk_level |-> "-",
           session_locked |-> FALSE, text |-> "-"]

Messages ==
    {[Msg("connection_established") EXCEPT !.stt_state = s] : s \in {"ready", "connecting"}}
    \cup {Msg("stt_ready"), Msg("transcription"), Msg("audio_received"),
          Msg("stt_error"), Msg("session_summary"), Msg("session_locked"),
          Msg("malformed")}
    \cup {[Msg("risk_assessment") EXCEPT !.risk_level = l] : l \in {"low", "high"}}
    \cup {[Msg("risk_warning") EXCEPT !.risk_level = "medium"]}
    \cup {[Msg("crisis_detected") EXCEPT !.session_locked = b, !.risk_level = l] :
             b \in BOOLEAN, l \in {"-", "low"}}
    \cup {[Msg("error") EXCEPT !.text = x] : x \in ErrorTexts}

\* the initial values of the session data (useState / useRef)
InitialSttInfo == [provider |-> "null", lastPartial |-> "", error_message |-> "null"]
InitialRiskInfo ==
    [score |-> 0, mentalState |-> "calm", emotions |-> <<>>, explanation |-> "",
     recommendations |-> <<>>, lastUpdated |-> 0, windowContext |-> "undefined"]

InitData ==
    /\ messages = <<>>
    /\ finalTranscripts = <<>>
    /\ sttInfo = InitialSttInfo
    /\ riskInfo = InitialRiskInfo
    /\ audioConfig = "null"
    /\ hasReceivedTranscription = FALSE
    /\ delivered = 0

\* the hook is mounted, and no endSession call has started a poll
InitLife ==
    /\ unmounted = FALSE
    /\ cleanup = "none"
    /\ pollTimers = 0
    /\ pollPhase = 0

\* ----------------------------------------------------------------- Init
\* The state after the mount effect ran: refs and state at their initial
\* values, and connect() has created the first socket.
Init ==
    /\ ws = "CONNECTING"
    /\ closeReq = NoClose
    /\ orphans = NoOrphans
    /\ isConnected = FALSE
    /\ sttState = "disconnected"
    /\ connectionError = "null"
    /\ connectionAttempts = 0
    /\ isManuallyDisconnected = FALSE
    /\ timerPending = FALSE
    /\ strayTimers = 0
    /\ lastSched = NoSched
    /\ failStreak = 0
    /\ isRecording = FALSE
    /\ isRecordingActiveRef = FALSE
    /\ audioStream = FALSE
    /\ audioContext = FALSE
    /\ audioProcessor = "null"
    /\ procInCur = FALSE
    /\ ctxModule = FALSE
    /\ shadowProcessors = 0
    /\ leakedStreams = 0
    /\ leakedContexts = 0
    /\ leakedProcessors = 0
    /\ recPc = [i \in 1..MaxRecCalls |-> "idle"]
    /\ frameParity = 0
    /\ isProcessingComplete = FALSE
    /\ isCrisisMode = FALSE
    /\ isSessionLocked = FALSE
    /\ riskLevel = "low"
    /\ graceTimers = 0
    /\ ends = [i \in 1..MaxEndCalls |-> IdleEnd]
    /\ endCompleted = "none"
    /\ dspKind = "none"
    /\ nativeRate = 3 * TargetRate
    /\ sampleCounter = 0
    /\ buffer = <<>>
    /\ pcmBuffer = <<>>
    /\ frames = <<>>
    /\ sentLens = <<>>
    /\ InitData
    /\ InitLife

\* ------------------------------------------------------------- connect
\* connect() without its do-not-reconnect guard
ConnectCreatesIgnoringFlag(manual) == ws # "OPEN"

\* connect() creates a socket unless the do-not-reconnect flag is set or
\* ws.current is OPEN.
ConnectCreates(manual) == ~manual /\ ws # "OPEN"

\* connect(), called with the do-not-reconnect flag `manual` and the
\* connection error `err` its caller left.  A socket that ws.current named
\* and that is still alive stays alive with its handlers attached.
Connect(manual, err) ==
    IF ConnectCreates(manual)
    THEN /\ ws \in LiveStates => OrphanCount < MaxOrphans
         /\ connectionError' = "null"
         /\ orphans' = IF ws \in LiveStates
                       THEN [orphans EXCEPT ![ws] = @ + 1]
                       ELSE orphans
         /\ ws' = "CONNECTING"
         /\ closeReq' = NoClose
    ELSE /\ connectionError' = err
         /\ UNCHANGED sockVars

Min(a, b) == IF a < b THEN a ELSE b

\* a base delay that grows by one unit per attempt instead of doubling
BackoffLinear(k) == Min(BaseDelay * (k + 1), MaxDelay)

\* Math.min(1000 * Math.pow(2, attempts), 30000)
BackoffBase(k) == Min(BaseDelay * 2^k, MaxDelay)

Sockets == {"cur"} \cup LiveStates
\* the readyState of socket s: "cur" is ws.current, the others name an orphan by its state
Alive(s, states) ==
    IF s = "cur" THEN ws \in states ELSE s \in states /\ orphans[s] > 0

\* socket s moves to readyState `to` ("CLOSED" sockets are dropped)
Move(s, to) ==
    IF s = "cur"
    THEN ws' = to /\ UNCHANGED <<closeReq, orphans>>
    ELSE /\ orphans' = IF to = "CLOSED"
                       THEN [orphans EXCEPT ![s] = @ - 1]
                       ELSE [orphans EXCEPT ![s] = @ - 1, ![to] = @ + 1]
         /\ UNCHANGED <<ws, closeReq>>

\* ws.onopen
OnOpen(s) ==
    /\ Alive(s, {"CONNECTING"})
    /\ Move(s, "OPEN")
    /\ isConnected' = TRUE
    /\ connectionError' = "null"
    /\ connectionAttempts' = 0
    /\ UNCHANGED <<sttState, isManuallyDisconnected, timerPending, strayTimers,
                   audioVars, recPc, frameParity, isProcessingComplete, riskVars,
                   graceTimers, endVars>>

\* the close codes a socket in readyState st can end with: a failed handshake
\* is always abnormal; an answered client close echoes the client's code
CloseCodes(st) ==
    CASE st = "CONNECTING" -> {CloseAbnormal}
      [] st = "OPEN" -> {CloseNormal, CloseAbnormal, ClosePolicy}
      [] st = "CLOSING" -> {CloseNormal, CloseAbnormal}
      [] OTHER -> {}

StateOf(s) == IF s = "cur" THEN ws ELSE s

\* the reconnect branch of ws.onclose is taken
Reschedules(code) ==
    code # ClosePolicy /\ ~isManuallyDisconnected /\ connectionAttempts < MaxReconnect

\* ws.onerror (when the closure is a failure) followed by ws.onclose
OnClose(s, code) ==
    /\ Alive(s, LiveStates)
    /\ code \in CloseCodes(StateOf(s))
    /\ Move(s, "CLOSED")
    /\ isConnected' = FALSE
    /\ sttState' = "disconnected"
    /\ isManuallyDisconnected' = (isManuallyDisconnected \/ code = ClosePolicy)
    /\ connectionError' =
         IF code = ClosePolicy THEN ErrPolicy
         ELSE IF ~Reschedules(code) /\ connectionAttempts >= MaxReconnect THEN ErrMaxAttempts
         ELSE IF code = CloseAbnormal THEN ErrWsFailed
         ELSE connectionError
    /\ IF Reschedules(code)
       THEN /\ timerPending => strayTimers < MaxStray
            /\ timerPending' = TRUE
            /\ strayTimers' = IF timerPending THEN strayTimers + 1 ELSE strayTimers
       ELSE UNCHANGED timerVars
    /\ UNCHANGED <<connectionAttempts, audioVars, recPc, frameParity,
                   isProcessingComplete, riskVars, graceTimers, endVars>>

\* the reconnect timer's callback: connectionAttempts++, connect()
ReconnectTimerFire(stray) ==
    /\ IF stray THEN strayTimers > 0 ELSE timerPending
    /\ timerPending' = IF stray THEN timerPending ELSE FALSE
    /\ strayTimers' = IF stray THEN strayTimers - 1 ELSE strayTimers
    /\ connectionAttempts' = connectionAttempts + 1
    /\ Connect(isManuallyDisconnected, connectionError)
    /\ UNCHANGED <<isConnected, sttState, isManuallyDisconnected,
                   audioVars, recPc, frameParity, isProcessingComplete, riskVars,
                   graceTimers, endVars>>

\* ------------------------------------------------------- inbound events
\* a switch whose stt_ready case leaves an error state alone
SttAfterErrorSticks(m) ==
    CASE m.type = "connection_established" ->
            IF m.stt_state = "ready" THEN "ready" ELSE "connecting"
      [] m.type = "stt_ready" -> IF sttState = "error" THEN "error" ELSE "ready"
      [] m.type = "stt_error" -> "error"
      [] OTHER -> sttState

\* the state the switch in ws.onmessage assigns for message m
SttAfter(m) ==
    CASE m.type = "connection_established" ->
            IF m.stt_state = "ready" THEN "ready" ELSE "connecting"
      [] m.type = "stt_ready" -> "ready"
      [] m.type = "stt_error" -> "error"
      [] OTHER -> sttState

\* a snapshot that is left alone while a connection error is shown
RiskLevelAfterUnlessError(m) ==
    IF connectionError # "null" THEN riskLevel
    ELSE CASE m.type = "risk_assessment" -> m.risk_level
           [] m.type = "risk_warning" -> m.risk_level
           [] m.type = "crisis_detected" -> "critical"
           [] OTHER -> riskLevel

RiskLevelAfter(m) ==
    CASE m.type = "risk_assessment" -> m.risk_level
      [] m.type = "risk_warning" -> m.risk_level
      [] m.type = "crisis_detected" -> "critical"
      [] OTHER -> riskLevel

CrisisAfter(m) == IF m.type = "crisis_detected" THEN TRUE ELSE isCrisisMode

\* a lock that a risk_assessment of level low releases
LockedAfterLowRiskUnlocks(m) ==
    IF m.type = "crisis_detected" /\ m.session_locked THEN TRUE
    ELSE IF m.type = "risk_assessment" /\ m.risk_level = "low" THEN FALSE
    ELSE isSessionLocked

LockedAfter(m) ==
    IF m.type = "crisis_detected" /\ m.session_locked THEN TRUE ELSE isSessionLocked

\* a handler that stops reconnection for the free-tier texts only
ErrorSuppressesFreeTierOnly(text) ==
    Includes(text, "free tier") \/ Includes(text, "concurrent")

\* case 'error': the quota keywords set the do-not-reconnect flag
ErrorSuppresses(text) ==
    Includes(text, "free tier") \/ Includes(text, "concurrent") \/ Includes(text, "limit")

ErrorAfter(m) ==
    IF m.type # "error" THEN connectionError
    ELSE IF Includes(m.text, "free tier") \/ Includes(m.text, "concurrent") THEN ErrFreeTier
    ELSE m.text

\* ws.onmessage of any socket that still delivers messages
OnMessage(m) ==
    /\ \E s \in Sockets : Alive(s, {"OPEN", "CLOSING"})
    /\ m.type = "session_summary" => graceTimers < MaxGrace
    /\ sttState' = SttAfter(m)
    /\ riskLevel' = RiskLevelAfter(m)
    /\ isCrisisMode' = CrisisAfter(m)
    /\ isSessionLocked' = LockedAfter(m)
    /\ connectionError' = ErrorAfter(m)
    /\ isManuallyDisconnected' =
         (isManuallyDisconnected \/ (m.type = "error" /\ ErrorSuppresses(m.text)))
    /\ isProcessingComplete' = (isProcessingComplete \/ m.type = "session_summary")
    /\ graceTimers' = IF m.type = "session_summary" THEN graceTimers + 1 ELSE graceTimers
    /\ ends' = [i \in DOMAIN ends |->
                  IF ends[i].pc = "waiting" /\ m.type = "session_summary"
                  THEN [ends[i] EXCEPT !.summary = TRUE] ELSE ends[i]]
    /\ UNCHANGED <<sockVars, isConnected, connectionAttempts, timerVars,
                   audioVars, recPc, frameParity, endCompleted>>

\* the 500 ms timer started by session_summary
GraceTimerFire ==
    /\ graceTimers > 0
    /\ graceTimers' = graceTimers - 1
    /\ IF ws = "OPEN"
       THEN /\ ws' = "CLOSING"
            /\ closeReq' = [code |-> CloseNormal, reason |-> "Session processing complete"]
       ELSE UNCHANGED <<ws, closeReq>>
    /\ UNCHANGED <<orphans, isConnected, sttState, connectionError,
                   connectionAttempts, isManuallyDisconnected, timerVars,
                   audioVars, recPc, frameParity, isProcessingComplete, riskVars, endVars>>

\* ------------------------------------------------------------ recording
\* call slot i is the next one a new startRecording call takes
FreeRecSlot(i) ==
    /\ recPc[i] = "idle"
    /\ \A j \in 1..(i - 1) : recPc[j] # "idle"

\* a startRecording that does not look at the connection or the provider state
StartRecordingUnguarded(i) ==
    /\ FreeRecSlot(i)
    /\ IF isRecording
       THEN UNCHANGED recPc
       ELSE recPc' = [recPc EXCEPT ![i] = "getUserMedia"]
    /\ UNCHANGED <<sockVars, isConnected, sttState, connectionError, connectionAttempts,
                   isManuallyDisconnected, timerVars, audioVars, frameParity,
                   isProcessingComplete, riskVars, graceTimers, endVars>>

\* startRecording up to its first await
StartRecording(i) ==
    /\ FreeRecSlot(i)
    /\ IF isRecording
       THEN UNCHANGED <<recPc, connectionError>>
       ELSE IF ~isConnected \/ sttState # "ready"
       THEN connectionError' = ErrSttNotReady /\ UNCHANGED recPc
       ELSE recPc' = [recPc EXCEPT ![i] = "getUserMedia"] /\ UNCHANGED connectionError
    /\ UNCHANGED <<sockVars, isConnected, sttState, connectionAttempts,
                   isManuallyDisconnected, timerVars, audioVars, frameParity,
                   isProcessingComplete, riskVars, graceTimers, endVars>>

\* the catch block of startRecording
RecordingFailed ==
    /\ connectionError' = ErrRecording
    /\ isRecordingActiveRef' = FALSE
    /\ isRecording' = FALSE

\* getUserMedia of call i settles: the stream is stored, the recording flags
\* are set and a new AudioContext is stored, each over whatever the ref named
\* before; or the rejection reaches the catch block.  A call that was waiting
\* for addModule on the context just overwritten resumes on a context that is
\* not its own.
GetUserMediaDone(i, granted) ==
    /\ recPc[i] = "getUserMedia"
    /\ IF granted
       THEN /\ audioStream => leakedStreams < MaxLeaked
            /\ audioContext => leakedContexts < MaxLeaked
            /\ audioContext => leakedProcessors + shadowProcessors <= MaxLeaked
            /\ audioStream' = TRUE
            /\ leakedStreams' = IF audioStream THEN leakedStreams + 1 ELSE leakedStreams
            /\ isRecordingActiveRef' = TRUE
            /\ isRecording' = TRUE
            /\ audioContext' = TRUE
            /\ leakedContexts' = IF audioContext THEN leakedContexts + 1 ELSE leakedContexts
            /\ leakedProcessors' = leakedProcessors + shadowProcessors
            /\ shadowProcessors' = 0
            /\ procInCur' = FALSE
            /\ ctxModule' = FALSE
            /\ recPc' = [j \in 1..MaxRecCalls |->
                           IF j = i THEN "addModule"
                           ELSE IF recPc[j] = "addModule" THEN "addModuleStale"
                           ELSE recPc[j]]
            /\ UNCHANGED <<connectionError, audioProcessor>>
       ELSE /\ RecordingFailed
            /\ recPc' = [recPc EXCEPT ![i] = "idle"]
            /\ UNCHANGED <<audioStream, audioContext, graphVars, leakVars>>
    /\ UNCHANGED <<sockVars, isConnected, sttState, connectionAttempts,
                   isManuallyDisconnected, timerVars, frameParity,
                   isProcessingComplete, riskVars, graceTimers, endVars>>

\* the node of call i can be built on audioContext.current: the ScriptProcessor
\* on any context, the AudioWorkletNode only where the module is loaded (the
\* call's own context, or another call's once that call's addModule resolved)
NodeBuilds(i, loaded) ==
    audioContext /\ (~loaded \/ recPc[i] = "addModule" \/ ctxModule)

\* audioWorklet.addModule of call i settles: the worklet graph is built, or on
\* rejection startRecordingFallback builds the ScriptProcessor graph.  Both
\* dereference audioContext.current, which stopRecording may have cleared or
\* another call replaced meanwhile: a failure of the worklet path lands in the
\* catch block, the fallback's rejection is returned unawaited and is not
\* caught.  The node stored in audioProcessor.current replaces the one the ref
\* named, which stays connected.
AddModuleDone(i, loaded) ==
    /\ recPc[i] \in {"addModule", "addModuleStale"}
    /\ recPc' = [recPc EXCEPT ![i] = "idle"]
    /\ IF NodeBuilds(i, loaded)
       THEN /\ audioProcessor # "null" =>
                  IF procInCur THEN shadowProcessors + leakedProcessors < MaxLeaked
                  ELSE leakedProcessors < MaxLeaked
            /\ audioProcessor' = IF loaded THEN "worklet" ELSE "script"
            /\ procInCur' = TRUE
            /\ ctxModule' = (ctxModule \/ (loaded /\ recPc[i] = "addModule"))
            /\ shadowProcessors' = IF audioProcessor # "null" /\ procInCur
                                   THEN shadowProcessors + 1 ELSE shadowProcessors
            /\ leakedProcessors' = IF audioProcessor # "null" /\ ~procInCur
                                   THEN leakedProcessors + 1 ELSE leakedProcessors
            /\ UNCHANGED <<connectionError, isRecordingActiveRef, isRecording,
                           leakedStreams, leakedContexts>>
       ELSE /\ IF loaded
               THEN RecordingFailed
               ELSE UNCHANGED <<connectionError, isRecordingActiveRef, isRecording>>
            /\ UNCHANGED <<graphVars, leakVars>>
    /\ UNCHANGED <<sockVars, isConnected, sttState, connectionAttempts,
                   isManuallyDisconnected, timerVars, audioStream,
                   audioContext, frameParity, isProcessingComplete, riskVars,
                   graceTimers, endVars>>

\* getUserMedia of call i resolves and new AudioContext() throws: the stream
\* is stored and the flags set, then the catch block runs
AudioContextFails(i) ==
    /\ recPc[i] = "getUserMedia"
    /\ audioStream => leakedStreams < MaxLeaked
    /\ audioStream' = TRUE
    /\ leakedStreams' = IF audioStream THEN leakedStreams + 1 ELSE leakedStreams
    /\ RecordingFailed
    /\ recPc' = [recPc EXCEPT ![i] = "idle"]
    /\ UNCHANGED <<sockVars, isConnected, sttState, connectionAttempts,
                   isManuallyDisconnected, timerVars, audioContext, graphVars,
                   leakedContexts, leakedProcessors, frameParity,
                   isProcessingComplete, riskVars, graceTimers, endVars>>

\* addModule of call i resolved and createMediaStreamSource, new
\* AudioWorkletNode or source.connect throws: the catch block runs
WorkletNodeFails(i) ==
    /\ recPc[i] \in {"addModule", "addModuleStale"}
    /\ RecordingFailed
    /\ recPc' = [recPc EXCEPT ![i] = "idle"]
    /\ UNCHANGED <<sockVars, isConnected, sttState, connectionAttempts,
                   isManuallyDisconnected, timerVars, audioStream, audioContext,
                   graphVars, leakVars, frameParity, isProcessingComplete,
                   riskVars, graceTimers, endVars>>

\* a guard that does not look at the socket
FrameIsSentIgnoringSocket == isRecordingActiveRef

\* the guard of workletNode.port.onmessage and of processor.onaudioprocess
FrameIsSent == isRecordingActiveRef /\ ws = "OPEN"

\* a node that is connected in a context that is not closed
GraphRuns == audioProcessor # "null" \/ shadowProcessors > 0 \/ leakedProcessors > 0

\* a frame of a connected processing graph reaches the main thread
OnAudioFrame ==
    /\ GraphRuns
    /\ frameParity' = IF FrameIsSent THEN 1 - frameParity ELSE frameParity
    /\ UNCHANGED <<sockVars, isConnected, sttState, connectionError, connectionAttempts,
                   isManuallyDisconnected, timerVars, audioVars, recPc,
                   isProcessingComplete, riskVars, graceTimers, endVars>>

\* the body of stopRecording: the node, the context and the stream the refs
\* name are released and the refs cleared
StopRecordingEffect ==
    /\ isRecordingActiveRef' = FALSE
    /\ isRecording' = FALSE
    /\ audioProcessor' = "null"
    /\ procInCur' = FALSE
    /\ audioContext' = FALSE
    /\ ctxModule' = FALSE
    /\ shadowProcessors' = 0
    /\ audioStream' = FALSE
    /\ UNCHANGED leakVars

StopRecording ==
    /\ StopRecordingEffect
    /\ UNCHANGED <<sockVars, isConnected, sttState, connectionError, connectionAttempts,
                   isManuallyDisconnected, timerVars, recPc, frameParity,
                   isProcessingComplete, riskVars, graceTimers, endVars>>

\* -------------------------------------------------- connection management
Disconnect ==
    /\ isManuallyDisconnected' = TRUE
    /\ timerPending' = FALSE
    /\ StopRecordingEffect
    /\ IF ws = "OPEN"
       THEN /\ ws' = "CLOSING"
            /\ closeReq' = [code |-> CloseNormal, reason |-> "Manual disconnect"]
       ELSE UNCHANGED <<ws, closeReq>>
    /\ UNCHANGED <<orphans, isConnected, sttState, connectionError,
                   connectionAttempts, strayTimers, recPc,
                   frameParity, isProcessingComplete, riskVars, graceTimers, endVars>>

Reconnect ==
    /\ isManuallyDisconnected' = FALSE
    /\ connectionAttempts' = 0
    /\ Connect(FALSE, connectionError)
    /\ UNCHANGED <<isConnected, sttState, timerPending, strayTimers, audioVars, recPc,
                   frameParity, isProcessingComplete, riskVars, graceTimers, endVars>>

ForceReconnect ==
    /\ isManuallyDisconnected' = FALSE
    /\ connectionAttempts' = 0
    /\ Connect(FALSE, "null")
    /\ UNCHANGED <<isConnected, sttState, timerPending, strayTimers, audioVars, recPc,
                   frameParity, isProcessingComplete, riskVars, graceTimers, endVars>>

ResetSession ==
    /\ connectionAttempts' = 0
    /\ connectionError' = "null"
    /\ isProcessingComplete' = FALSE
    /\ isCrisisMode' = FALSE
    /\ isSessionLocked' = FALSE
    /\ riskLevel' = "low"
    /\ isManuallyDisconnected' = FALSE
    /\ UNCHANGED <<sockVars, isConnected, sttState, timerPending, strayTimers, audioVars,
                   recPc, frameParity, graceTimers, endVars>>

\* ------------------------------------------------------------ endSession
FreeEndSlot(i) ==
    /\ ends[i].pc = "idle"
    /\ \A j \in 1..(i - 1) : ends[j].pc # "idle"

\* endSession up to the return of its promise: recording is stopped, the
\* end_session command is sent on an open socket, the fallback timer is
\* started and checkComplete runs once.  checkComplete reads the
\* isProcessingComplete its closure captured at the call: when it is true the
\* fallback is cleared and the promise resolves at once; when it is false the
\* poll can never see a later change and the call waits for the fallback.
EndSession(i) ==
    /\ FreeEndSlot(i)
    /\ IF isRecording THEN StopRecordingEffect ELSE UNCHANGED audioVars
    /\ IF isProcessingComplete
       THEN /\ isManuallyDisconnected' = TRUE
            /\ endCompleted' = "graceful"
            /\ UNCHANGED ends
       ELSE /\ ends' = [ends EXCEPT ![i] =
                          [pc |-> "waiting", sent |-> (ws = "OPEN"), summary |-> FALSE]]
            /\ UNCHANGED <<isManuallyDisconnected, endCompleted>>
    /\ UNCHANGED <<sockVars, isConnected, sttState, connectionError, connectionAttempts,
                   timerVars, recPc, frameParity, isProcessingComplete,
                   riskVars, graceTimers>>

\* a fallback that closes the socket but never resolves the promise
FallbackFireNoResolve(i) ==
    /\ ends[i].pc = "waiting"
    /\ isManuallyDisconnected' = TRUE
    /\ IF ws = "OPEN"
       THEN /\ ws' = "CLOSING"
            /\ closeReq' = [code |-> CloseNormal, reason |-> "Session ended (timeout)"]
       ELSE UNCHANGED <<ws, closeReq>>
    /\ UNCHANGED <<orphans, isConnected, sttState, connectionError,
                   connectionAttempts, timerVars, audioVars, recPc,
                   frameParity, isProcessingComplete, riskVars, graceTimers, endVars>>

\* the 5000 ms fallback timer of call i
FallbackFire(i) ==
    /\ ends[i].pc = "waiting"
    /\ isManuallyDisconnected' = TRUE
    /\ IF ws = "OPEN"
       THEN /\ ws' = "CLOSING"
            /\ closeReq' = [code |-> CloseNormal, reason |-> "Session ended (timeout)"]
       ELSE UNCHANGED <<ws, closeReq>>
    /\ ends' = [ends EXCEPT ![i] = IdleEnd]
    /\ endCompleted' = "timeout"
    /\ UNCHANGED <<orphans, isConnected, sttState, connectionError,
                   connectionAttempts, timerVars, audioVars, recPc,
                   frameParity, isProcessingComplete, riskVars, graceTimers>>

\* ------------------------------------------------------------ resampler
\* audioContext.sampleRate of the devices considered
Rates == {16000, 32000, 44100, 48000, 96000}
\* lengths of the input blocks AudioProcessorWorklet.process receives: the
\* render quantum and an uneven split
BlockSizes == {128, 480}

\* Math.round(a / b) for positive a and b
Round(a, b) == (2 * a + b) \div (2 * b)

\* the decimation ratio each strategy uses: the worklet's is fixed, the
\* fallback's is Math.round(audioContext.sampleRate / 16000)
DownsampleRatio(kind, rate) ==
    IF kind = "worklet" THEN WorkletRatio ELSE Round(rate, TargetRate)

\* native sample n in thousandths of full scale; the signal overshoots the
\* range [-1, 1] so that the clamp takes part
InputSample(n) == ((n * 37) % 3001) - 1500

\* Math.round(Math.max(-1, Math.min(1, x)) * 32767), Math.round rounding
\* halves upwards
ToInt16(x) ==
    LET clamped == IF x < -1000 THEN -1000 ELSE IF x > 1000 THEN 1000 ELSE x
    IN (2 * clamped * 32767 + 1000) \div 2000

\* a loop whose sample counter restarts with every input block
KeptSamplesPerBlock(sc, n, ratio) ==
    LET counters == [i \in 1..n |-> sc + i - 1]
        kept == SelectSeq(counters, LAMBDA c : (c - sc) % ratio = 0)
    IN [j \in 1..Len(kept) |-> ToInt16(InputSample(kept[j]))]

\* the loop over one input block of n samples starting at counter value sc:
\* the converted samples whose counter value is a multiple of the ratio
KeptSamples(sc, n, ratio) ==
    LET counters == [i \in 1..n |-> sc + i - 1]
        kept == SelectSeq(counters, LAMBDA c : c % ratio = 0)
    IN [j \in 1..Len(kept) |-> ToInt16(InputSample(kept[j]))]

\* a worklet that posts whatever it collected at the end of every block
WorkletPushEveryBlock(buf, kept) ==
    [frames |-> IF buf \o kept = <<>> THEN <<>> ELSE <<buf \o kept>>, buffer |-> <<>>]

\* the worklet's buffer.push of each kept sample, posting the buffer as one
\* frame and emptying it whenever it holds targetSamples: the buffer starts a
\* block below targetSamples, so the samples pushed leave it in runs of
\* exactly targetSamples and the rest stays buffered
WorkletPush(buf, kept) ==
    LET all == buf \o kept
        posted == Len(all) \div TargetSamples
    IN [frames |-> [f \in 1..posted |->
                       SubSeq(all, (f - 1) * TargetSamples + 1, f * TargetSamples)],
        buffer |-> SubSeq(all, posted * TargetSamples + 1, Len(all))]

\* pcmBuffer.reduce((sum, buffer) => sum + buffer.length, 0)
RECURSIVE TotalSamples(_)
TotalSamples(chunks) ==
    IF chunks = <<>> THEN 0 ELSE Len(Head(chunks)) + TotalSamples(Tail(chunks))

\* the merged Int16Array: the chunks copied one after the other
RECURSIVE Merged(_)
Merged(chunks) ==
    IF chunks = <<>> THEN <<>> ELSE Head(chunks) \o Merged(Tail(chunks))

\* the lengths of the frames in a sequence of frames
Lens(fs) == [j \in 1..Len(fs) |-> Len(fs[j])]

\* AudioProcessorWorklet.process on a block of n samples, followed by the main
\* thread's port.onmessage for every frame it posted
WorkletProcess(n) ==
    /\ dspKind = "worklet" /\ audioProcessor = "worklet"
    /\ sampleCounter + n <= MaxNative
    /\ LET r == WorkletPush(buffer,
                            KeptSamples(sampleCounter, n, DownsampleRatio(dspKind, nativeRate)))
       IN /\ buffer' = r.buffer
          /\ frames' = frames \o r.frames
          /\ sentLens' = IF FrameIsSent THEN sentLens \o Lens(r.frames) ELSE sentLens
          /\ frameParity' = IF FrameIsSent /\ r.frames # <<>>
                            THEN (frameParity + Len(r.frames)) % 2 ELSE frameParity
    /\ sampleCounter' = sampleCounter + n
    /\ UNCHANGED <<sockVars, isConnected, sttState, connectionError, connectionAttempts,
                   isManuallyDisconnected, timerVars, histVars, audioVars, recPc,
                   isProcessingComplete, riskVars, graceTimers, endVars,
                   dspKind, nativeRate, pcmBuffer, dataVars, lifeVars>>

\* processor.onaudioprocess on a block of n samples: createScriptProcessor's
\* bufferSize makes every inputBuffer ScriptBufferSize long
ScriptProcess(n) ==
    /\ dspKind = "script" /\ audioProcessor = "script"
    /\ sampleCounter + n <= MaxNative
    /\ IF ~FrameIsSent
       THEN UNCHANGED <<sampleCounter, pcmBuffer, frames, sentLens, frameParity>>
       ELSE LET chunk == KeptSamples(sampleCounter, n, DownsampleRatio(dspKind, nativeRate))
                pushed == IF Len(chunk) > 0 THEN Append(pcmBuffer, chunk) ELSE pcmBuffer
                sends == Len(chunk) > 0 /\ TotalSamples(pushed) >= MinSamples
            IN /\ sampleCounter' = sampleCounter + n
               /\ pcmBuffer' = IF sends THEN <<>> ELSE pushed
               /\ frames' = IF sends THEN Append(frames, Merged(pushed)) ELSE frames
               /\ sentLens' = IF sends THEN Append(sentLens, TotalSamples(pushed)) ELSE sentLens
               /\ frameParity' = IF sends THEN 1 - frameParity ELSE frameParity
    /\ UNCHANGED <<sockVars, isConnected, sttState, connectionError, connectionAttempts,
                   isManuallyDisconnected, timerVars, histVars, audioVars, recPc,
                   isProcessingComplete, riskVars, graceTimers, endVars,
                   dspKind, nativeRate, buffer, dataVars, lifeVars>>

\* a recording has just started on an open socket with the provider ready:
\* the graph of strategy kind is connected on a device of the given rate and
\* its resampler is fresh
RecordingStarted(kind, rate) ==
    /\ ws = "OPEN"
    /\ closeReq = NoClose
    /\ orphans = NoOrphans
    /\ isConnected = TRUE
    /\ sttState = "ready"
    /\ connectionError = "null"
    /\ connectionAttempts = 0
    /\ isManuallyDisconnected = FALSE
    /\ timerPending = FALSE
    /\ strayTimers = 0
    /\ lastSched = NoSched
    /\ failStreak = 0
    /\ isRecording = TRUE
    /\ isRecordingActiveRef = TRUE
    /\ audioStream = TRUE
    /\ audioContext = TRUE
    /\ audioProcessor = kind
    /\ procInCur = TRUE
    /\ ctxModule = (kind = "worklet")
    /\ shadowProcessors = 0
    /\ leakedStreams = 0
    /\ leakedContexts = 0
    /\ leakedProcessors = 0
    /\ recPc = [i \in 1..MaxRecCalls |-> "idle"]
    /\ frameParity = 0
    /\ isProcessingComplete = FALSE
    /\ isCrisisMode = FALSE
    /\ isSessionLocked = FALSE
    /\ riskLevel = "low"
    /\ graceTimers = 0
    /\ ends = [i \in 1..MaxEndCalls |-> IdleEnd]
    /\ endCompleted = "none"
    /\ dspKind = kind
    /\ nativeRate = rate
    /\ sampleCounter = 0
    /\ buffer = <<>>
    /\ pcmBuffer = <<>>
    /\ frames = <<>>
    /\ sentLens = <<>>
    /\ InitData
    /\ InitLife

\* ------------------------------------------- reconnect bookkeeping
\* baseDelay + jitter of ws.onclose
ReconnectDelay(k, jitter) == BackoffBase(k) + jitter

\* ws.onclose, with the delay it hands to setTimeout and the run of abnormal
\* closures recorded
OnCloseTimed(s, code, jitter) ==
    /\ OnClose(s, code)
    /\ failStreak' = IF code = CloseAbnormal THEN failStreak + 1 ELSE 0
    /\ lastSched' = IF Reschedules(code)
                    THEN [k |-> connectionAttempts,
                          delay |-> ReconnectDelay(connectionAttempts, jitter)]
                    ELSE lastSched
    /\ UNCHANGED <<dspVars, dataVars, lifeVars>>

\* a successful open, or a manual restart, ends the run of failures
Restart(A) ==
    A /\ lastSched' = NoSched /\ failStreak' = 0 /\ UNCHANGED <<dspVars, dataVars, lifeVars>>

\* ---------------------------------------------------------- session data
\* message.data and message.timestamp of a message that carries none of the
\* optional fields
NoPayload ==
    [provider |-> "undefined", audio_config |-> "undefined", transcript |-> "undefined",
     is_final |-> FALSE, timestamp |-> 1, message |-> "undefined", score |-> 0,
     mental_state |-> "undefined", emotions |-> <<>>, explanation |-> "undefined",
     recommendations |-> <<>>, window_context |-> "undefined"]

WithData(m) == m @@ NoPayload

\* the messages whose effect on the session data is followed: one or two of
\* every kind, with and without the optional fields of their payload
DataMsgs ==
    {[WithData([Msg("connection_established") EXCEPT !.stt_state = "ready"])
         EXCEPT !.provider = "assemblyai", !.audio_config = "pcm16"],
     [WithData([Msg("connection_established") EXCEPT !.stt_state = "connecting"])
         EXCEPT !.provider = "assemblyai"],
     [WithData(Msg("stt_ready")) EXCEPT !.provider = "assemblyai"],
     [WithData(Msg("stt_error")) EXCEPT !.message = "provider failed"],
     [WithData([Msg("risk_assessment") EXCEPT !.risk_level = "high"])
         EXCEPT !.score = 7, !.mental_state = "anxious", !.emotions = <<"fear">>,
                !.explanation = "assessed", !.recommendations = <<"check in">>,
                !.window_context = "window"],
     [WithData([Msg("risk_assessment") EXCEPT !.risk_level = "low"]) EXCEPT !.score = 1],
     [WithData([Msg("risk_warning") EXCEPT !.risk_level = "medium"])
         EXCEPT !.score = 5, !.explanation = "warned"],
     WithData(Msg("session_summary")),
     WithData([Msg("error") EXCEPT !.text = "Server error"]),
     WithData(Msg("audio_received")),
     WithData(Msg("session_locked")),
     WithData(Msg("malformed"))}
    \cup {[WithData([Msg("crisis_detected") EXCEPT !.session_locked = b])
              EXCEPT !.score = 9, !.explanation = "crisis"] : b \in BOOLEAN}
    \cup {[WithData(Msg("transcription"))
              EXCEPT !.transcript = IF f THEN "final text" ELSE "partial text",
                     !.is_final = f, !.timestamp = t] : f \in BOOLEAN, t \in {1, 2}}

\* a || b of a payload field
OrElse(a, b) == IF a = "undefined" THEN b ELSE a

\* the entry the log holds for message m, delivered as event number n
Entry(n, m) == [seq |-> n, msg |-> m]

\* a log that grows at the front
PrependToLog(prev, e) == <<e>> \o prev

\* [...prev, message]
AppendToLog(prev, e) == Append(prev, e)

\* prev.slice(-n)
LastN(prev, n) == SubSeq(prev, IF Len(prev) > n THEN Len(prev) - n + 1 ELSE 1, Len(prev))

\* setSTTState in the cases of the switch: the fields other than state
SttInfoAfter(m) ==
    CASE m.type \in {"connection_established", "stt_ready"} ->
            [sttInfo EXCEPT !.provider = m.provider]
      [] m.type = "transcription" -> [sttInfo EXCEPT !.lastPartial = m.transcript]
      [] m.type = "stt_error" -> [sttInfo EXCEPT !.error_message = m.message]
      [] OTHER -> sttInfo

\* a switch whose risk_warning case builds the snapshot anew
RiskInfoAfterWarningReplaces(m) ==
    CASE m.type = "risk_assessment" ->
            [score |-> m.score, mentalState |-> OrElse(m.mental_state, "calm"),
             emotions |-> m.emotions, explanation |-> m.explanation,
             recommendations |-> m.recommendations, lastUpdated |-> m.timestamp,
             windowContext |-> m.window_context]
      [] m.type = "risk_warning" ->
            [score |-> m.score, mentalState |-> OrElse(m.mental_state, "stressed"),
             emotions |-> <<>>, explanation |-> m.explanation,
             recommendations |-> m.recommendations, lastUpdated |-> m.timestamp,
             windowContext |-> "undefined"]
      [] m.type = "crisis_detected" ->
            [score |-> m.score, mentalState |-> OrElse(m.mental_state, "suicidal"),
             emotions |-> <<>>, explanation |-> m.explanation,
             recommendations |-> m.recommendations, lastUpdated |-> m.timestamp,
             windowContext |-> "undefined"]
      [] OTHER -> riskInfo

\* setCurrentRisk in the cases of the switch: the fields other than level
RiskInfoAfter(m) ==
    CASE m.type = "risk_assessment" ->
            [score |-> m.score, mentalState |-> OrElse(m.mental_state, "calm"),
             emotions |-> m.emotions, explanation |-> m.explanation,
             recommendations |-> m.recommendations, lastUpdated |-> m.timestamp,
             windowContext |-> m.window_context]
      [] m.type = "risk_warning" ->
            [riskInfo EXCEPT !.score = m.score,
                             !.mentalState = OrElse(m.mental_state, "stressed"),
                             !.explanation = m.explanation,
                             !.recommendations = m.recommendations,
                             !.lastUpdated = m.timestamp]
      [] m.type = "crisis_detected" ->
            [score |-> m.score, mentalState |-> OrElse(m.mental_state, "suicidal"),
             emotions |-> <<>>, explanation |-> m.explanation,
             recommendations |-> m.recommendations, lastUpdated |-> m.timestamp,
             windowContext |-> "undefined"]
      [] OTHER -> riskInfo

\* a handler that appends the event to the log before parsing it
ParsesBeforeLogging(m) == TRUE

\* JSON.parse(event.data) returns
Parses(m) == m.type # "malformed"

\* ws.onmessage with the session data: a message that does not parse is
\* dropped in the catch block; a parsed one is appended to the log and then
\* handled by the switch
OnMessageData(m) ==
    /\ delivered < MaxDelivered
    /\ delivered' = delivered + 1
    /\ OnMessage(m)
    /\ messages' = IF Parses(m) THEN AppendToLog(messages, Entry(delivered + 1, m))
                   ELSE messages
    /\ sttInfo' = SttInfoAfter(m)
    /\ riskInfo' = RiskInfoAfter(m)
    /\ finalTranscripts' =
         IF m.type = "transcription" /\ m.is_final
         THEN Append(LastN(finalTranscripts, KeptFinals), Entry(delivered + 1, m))
         ELSE finalTranscripts
    /\ audioConfig' =
         IF m.type = "connection_established" /\ m.audio_config # "undefined"
         THEN m.audio_config ELSE audioConfig
    /\ hasReceivedTranscription' = (hasReceivedTranscription \/ m.type = "transcription")

\* a reset that keeps the risk snapshot
ResetSessionKeepsRisk ==
    /\ ResetSession
    /\ messages' = <<>>
    /\ hasReceivedTranscription' = FALSE
    /\ finalTranscripts' = <<>>
    /\ UNCHANGED <<riskInfo, sttInfo, audioConfig, delivered>>

\* resetSession with the session data
ResetSessionData ==
    /\ ResetSession
    /\ messages' = <<>>
    /\ hasReceivedTranscription' = FALSE
    /\ riskInfo' = InitialRiskInfo
    /\ finalTranscripts' = <<>>
    /\ UNCHANGED <<sttInfo, audioConfig, delivered>>

\* clearMessages
ClearMessages ==
    /\ messages' = <<>>
    /\ UNCHANGED <<sockVars, isConnected, sttState, connectionError, connectionAttempts,
                   isManuallyDisconnected, timerVars, audioVars, recPc, frameParity,
                   isProcessingComplete, riskVars, graceTimers, endVars,
                   finalTranscripts, sttInfo, riskInfo, audioConfig,
                   hasReceivedTranscription, delivered>>

\* a step of a specification that follows the session data
Logged(A) == A /\ UNCHANGED <<histVars, dspVars, lifeVars>>

\* ------------------------------------------------------- message groups
OfType(types) == {m \in Messages : m.type \in types}
ReadinessMsgs == OfType({"connection_established", "stt_ready", "stt_error"})
ErrorMsgs == OfType({"error"})
RiskMsgs == OfType({"risk_assessment", "risk_warning", "crisis_detected"})
SummaryMsgs == OfType({"session_summary"})
OtherMsgs == OfType({"transcription", "audio_received", "session_locked", "malformed"})
\* one message of every kind
SessionMsgs == {m \in Messages : m.type = "error" => m.text = "Server error"}
AllCodes == {CloseNormal, CloseAbnormal, ClosePolicy}

\* ----------------------------------------------------------------- Next
\* a step that schedules no reconnect and neither starts nor ends a run of
\* failures, in a specification that does not follow the session data: the
\* hook only writes the data, no handler reads it
Plain(A) == A /\ UNCHANGED <<histVars, dspVars, dataVars, lifeVars>>

\* Transport and recording: every socket event, the readiness and error
\* messages, the connection-management calls and the recording pipeline.
Next ==
    \/ \E s \in Sockets : Plain(OnOpen(s))
    \/ \E s \in Sockets, c \in AllCodes : Plain(OnClose(s, c))
    \/ \E b \in BOOLEAN : Plain(ReconnectTimerFire(b))
    \/ \E m \in ReadinessMsgs \cup ErrorMsgs : Plain(OnMessage(m))
    \/ Plain(Disconnect)
    \/ Plain(Reconnect)
    \/ Plain(ForceReconnect)
    \/ Plain(ResetSession)
    \/ Plain(StartRecording(1))
    \/ \E g \in BOOLEAN : Plain(GetUserMediaDone(1, g))
    \/ \E l \in BOOLEAN : Plain(AddModuleDone(1, l))
    \/ Plain(OnAudioFrame)
    \/ Plain(StopRecording)

Spec == Init /\ [][Next]_vars

\* The transport alone, with the delay of every scheduled reconnect and the
\* run of abnormal closures recorded.
NextBackoff ==
    \/ \E s \in Sockets : Restart(OnOpen(s))
    \/ \E s \in Sockets, c \in AllCodes, j \in Jitters : OnCloseTimed(s, c, j)
    \/ \E b \in BOOLEAN : Plain(ReconnectTimerFire(b))
    \/ \E m \in ReadinessMsgs \cup ErrorMsgs : Plain(OnMessage(m))
    \/ Plain(Disconnect)
    \/ Restart(Reconnect)
    \/ Restart(ForceReconnect)
    \/ Restart(ResetSession)

SpecBackoff == Init /\ [][NextBackoff]_vars

\* The end-of-session handshake over the full transport.
NextEnd ==
    \/ \E s \in Sockets : Plain(OnOpen(s))
    \/ \E s \in Sockets, c \in AllCodes : Plain(OnClose(s, c))
    \/ \E b \in BOOLEAN : Plain(ReconnectTimerFire(b))
    \/ \E m \in ReadinessMsgs \cup SummaryMsgs : Plain(OnMessage(m))
    \/ Plain(Disconnect)
    \/ Plain(Reconnect)
    \/ Plain(ForceReconnect)
    \/ Plain(ResetSession)
    \/ Plain(GraceTimerFire)
    \/ \E i \in 1..MaxEndCalls : Plain(EndSession(i))
    \/ \E i \in 1..MaxEndCalls : Plain(FallbackFire(i))

SpecEnd == Init /\ [][NextEnd]_vars

\* setTimeout callbacks run: a pending fallback timer fires
FairSpecEnd ==
    /\ Init /\ [][NextEnd]_vars
    /\ \A i \in 1..MaxEndCalls : WF_vars(Plain(FallbackFire(i)))

\* A whole session under automatic reconnection: every message kind, every
\* close code, recording, the end-of-session handshake and resetSession.
NextSession ==
    \/ \E s \in Sockets : Plain(OnOpen(s))
    \/ \E s \in Sockets, c \in AllCodes : Plain(OnClose(s, c))
    \/ \E b \in BOOLEAN : Plain(ReconnectTimerFire(b))
    \/ \E m \in SessionMsgs : Plain(OnMessage(m))
    \/ Plain(ResetSession)
    \/ Plain(StartRecording(1))
    \/ \E g \in BOOLEAN : Plain(GetUserMediaDone(1, g))
    \/ \E l \in BOOLEAN : Plain(AddModuleDone(1, l))
    \/ Plain(OnAudioFrame)
    \/ Plain(StopRecording)
    \/ Plain(GraceTimerFire)
    \/ \E i \in 1..MaxEndCalls : Plain(EndSession(i))
    \/ \E i \in 1..MaxEndCalls : Plain(FallbackFire(i))

SpecSession == Init /\ [][NextSession]_vars

\* The recording pipeline with overlapping startRecording calls, over a
\* transport that reconnects automatically.
CrisisMsgs == OfType({"crisis_detected"})

NextRecording ==
    \/ \E s \in Sockets : Plain(OnOpen(s))
    \/ \E s \in Sockets, c \in AllCodes : Plain(OnClose(s, c))
    \/ \E b \in BOOLEAN : Plain(ReconnectTimerFire(b))
    \/ \E m \in ReadinessMsgs \cup CrisisMsgs : Plain(OnMessage(m))
    \/ Plain(ResetSession)
    \/ \E i \in 1..MaxRecCalls : Plain(StartRecording(i))
    \/ \E i \in 1..MaxRecCalls, g \in BOOLEAN : Plain(GetUserMediaDone(i, g))
    \/ \E i \in 1..MaxRecCalls, l \in BOOLEAN : Plain(AddModuleDone(i, l))
    \/ Plain(OnAudioFrame)
    \/ Plain(StopRecording)

SpecRecording == Init /\ [][NextRecording]_vars

\* The session data over a transport that reconnects automatically: the
\* effect of every message on the log, the transcript lists, the provider
\* record and the risk snapshot, with resetSession and clearMessages, while
\* the session records and ends.
NextData ==
    \/ Plain(OnOpen("cur"))
    \/ \E c \in AllCodes : Plain(OnClose("cur", c))
    \/ Plain(ReconnectTimerFire(FALSE))
    \/ \E m \in DataMsgs : Logged(OnMessageData(m))
    \/ Logged(ResetSessionData)
    \/ Logged(ClearMessages)
    \/ Plain(GraceTimerFire)
    \/ Plain(StartRecording(1))
    \/ \E g \in BOOLEAN : Plain(GetUserMediaDone(1, g))
    \/ \E l \in BOOLEAN : Plain(AddModuleDone(1, l))
    \/ Plain(StopRecording)
    \/ \E i \in 1..MaxEndCalls : Plain(EndSession(i))
    \/ \E i \in 1..MaxEndCalls : Plain(FallbackFire(i))

SpecData == Init /\ [][NextData]_vars

\* The resampler of a running recording, for either strategy and every device
\* rate, while the socket drops and is reopened by the reconnect timer and
\* until the recording is stopped.
InitResampler == \E kind \in {"worklet", "script"}, rate \in Rates : RecordingStarted(kind, rate)

NextResampler ==
    \/ \E n \in BlockSizes : WorkletProcess(n)
    \/ ScriptProcess(ScriptBufferSize)
    \/ Plain(OnOpen("cur"))
    \/ ws = "OPEN" /\ Plain(OnClose("cur", CloseAbnormal))
    \/ Plain(ReconnectTimerFire(FALSE))
    \/ Plain(StopRecording)

SpecResampler == InitResampler /\ [][NextResampler]_vars

\* The transport under manual connection management, without quota signals:
\* disconnect() is the only step that sets the do-not-reconnect flag.
ManualCodes == {CloseNormal, CloseAbnormal}

NextManual ==
    \/ \E s \in Sockets : Plain(OnOpen(s))
    \/ \E s \in Sockets, c \in ManualCodes : Plain(OnClose(s, c))
    \/ \E b \in BOOLEAN : Plain(ReconnectTimerFire(b))
    \/ \E m \in ReadinessMsgs : Plain(OnMessage(m))
    \/ Plain(Disconnect)
    \/ Plain(Reconnect)
    \/ Plain(ForceReconnect)

\* a handshake in progress ends (the socket opens or fails) and a close the
\* client asked for is answered
HandshakeSettles ==
    \E s \in Sockets :
        /\ Alive(s, {"CONNECTING", "CLOSING"})
        /\ \/ Plain(OnOpen(s))
           \/ \E c \in ManualCodes : Plain(OnClose(s, c))

SpecManual == Init /\ [][NextManual]_vars

\* handshakes settle and pending timers fire; nothing makes the server close
\* an open socket
FairSpecManual ==
    /\ SpecManual
    /\ WF_vars(HandshakeSettles)
    /\ WF_vars(\E b \in BOOLEAN : Plain(ReconnectTimerFire(b)))

\* One startRecording call at a time on a browser whose audio constructors
\* can throw, over a transport that reconnects automatically.
NextCapture ==
    \/ Plain(OnOpen("cur"))
    \/ \E c \in AllCodes : Plain(OnClose("cur", c))
    \/ Plain(ReconnectTimerFire(FALSE))
    \/ \E m \in ReadinessMsgs : Plain(OnMessage(m))
    \/ Plain(StartRecording(1))
    \/ \E g \in BOOLEAN : Plain(GetUserMediaDone(1, g))
    \/ Plain(AudioContextFails(1))
    \/ \E l \in BOOLEAN : Plain(AddModuleDone(1, l))
    \/ Plain(WorkletNodeFails(1))
    \/ Plain(OnAudioFrame)
    \/ Plain(StopRecording)

SpecCapture == Init /\ [][NextCapture]_vars

\* --------------------------------------------------- the completion poll
\* the most checkComplete chains followed
MaxPolls == 2

\* endSession with the timer its first checkComplete starts.  checkComplete
\* reads the isProcessingComplete its closure captured: when it is true the
\* promise resolves at once and no 100 ms timer is started; when it is false
\* a 100 ms timer is started.
EndSessionPolled(i) ==
    /\ EndSession(i)
    /\ IF isProcessingComplete
       THEN UNCHANGED pollTimers
       ELSE /\ pollTimers < MaxPolls
            /\ pollTimers' = pollTimers + 1
    /\ UNCHANGED <<histVars, dspVars, dataVars, unmounted, cleanup, pollPhase>>

\* a 100 ms timer of checkComplete fires.  A timer exists only in a chain
\* whose closure captured isProcessingComplete = false, and neither the
\* fallback nor a later render changes that captured value: the else branch
\* runs and starts the next 100 ms timer.
CheckCompleteFire ==
    /\ pollTimers > 0
    /\ pollPhase' = 1 - pollPhase
    /\ UNCHANGED <<sockVars, isConnected, sttState, connectionError, connectionAttempts,
                   isManuallyDisconnected, timerVars, audioVars, recPc, frameParity,
                   isProcessingComplete, riskVars, graceTimers, endVars,
                   histVars, dspVars, dataVars, unmounted, cleanup, pollTimers>>

\* Sessions ended with endSession over a transport that reconnects
\* automatically, with the timers endSession starts.
NextPoll ==
    \/ Plain(OnOpen("cur"))
    \/ \E c \in AllCodes : Plain(OnClose("cur", c))
    \/ Plain(ReconnectTimerFire(FALSE))
    \/ \E m \in ReadinessMsgs \cup SummaryMsgs : Plain(OnMessage(m))
    \/ Plain(GraceTimerFire)
    \/ Plain(ResetSession)
    \/ \E i \in 1..MaxEndCalls : EndSessionPolled(i)
    \/ \E i \in 1..MaxEndCalls : Plain(FallbackFire(i))
    \/ CheckCompleteFire

SpecPoll == Init /\ [][NextPoll]_vars

\* ---------------------------------------------------------------- unmount
\* the cleanup function the mount effect returns: it only starts a 2000 ms
\* timer
Unmount ==
    /\ ~unmounted
    /\ unmounted' = TRUE
    /\ cleanup' = "pending"
    /\ UNCHANGED <<sockVars, isConnected, sttState, connectionError, connectionAttempts,
                   isManuallyDisconnected, timerVars, audioVars, recPc, frameParity,
                   isProcessingComplete, riskVars, graceTimers, endVars,
                   histVars, dspVars, dataVars, pollTimers, pollPhase>>

\* the 2000 ms timer fires: the resources are released only when the
\* connection was manually disconnected or no socket was ever created
CleanupTimerFire ==
    /\ cleanup = "pending"
    /\ IF isManuallyDisconnected \/ ws = "null"
       THEN /\ cleanup' = "done"
            /\ timerPending' = FALSE
            /\ audioProcessor' = "null"
            /\ procInCur' = FALSE
            /\ audioContext' = FALSE
            /\ ctxModule' = FALSE
            /\ shadowProcessors' = 0
            /\ audioStream' = FALSE
            /\ IF ws = "OPEN"
               THEN /\ ws' = "CLOSING"
                    /\ closeReq' = [code |-> CloseNormal, reason |-> "Component unmounting"]
               ELSE UNCHANGED <<ws, closeReq>>
       ELSE /\ cleanup' = "cancelled"
            /\ UNCHANGED <<ws, closeReq, timerPending, audioProcessor, procInCur,
                           audioContext, ctxModule, shadowProcessors, audioStream>>
    /\ UNCHANGED <<orphans, isConnected, sttState, connectionError, connectionAttempts,
                   isManuallyDisconnected, strayTimers, isRecording, isRecordingActiveRef,
                   leakVars, recPc, frameParity, isProcessingComplete, riskVars,
                   graceTimers, endVars, histVars, dspVars, dataVars,
                   unmounted, pollTimers, pollPhase>>

\* a call the mounted component makes
Mounted(A) == ~unmounted /\ Plain(A)

\* A component that uses the hook and unmounts: the component's calls stop
\* at unmount, the socket's events and the timers go on.
NextUnmount ==
    \/ Plain(OnOpen("cur"))
    \/ \E c \in AllCodes : Plain(OnClose("cur", c))
    \/ Plain(ReconnectTimerFire(FALSE))
    \/ \E m \in ReadinessMsgs : Plain(OnMessage(m))
    \/ Mounted(Disconnect)
    \/ Mounted(StartRecording(1))
    \/ \E g \in BOOLEAN : Plain(GetUserMediaDone(1, g))
    \/ \E l \in BOOLEAN : Plain(AddModuleDone(1, l))
    \/ Mounted(StopRecording)
    \/ Unmount
    \/ CleanupTimerFire

SpecUnmount == Init /\ [][NextUnmount]_vars

\* handshakes settle and pending timers fire; nothing makes the server close
\* an open socket
FairSpecUnmount ==
    /\ SpecUnmount
    /\ WF_vars(HandshakeSettles)
    /\ WF_vars(Plain(ReconnectTimerFire(FALSE)))
    /\ WF_vars(CleanupTimerFire)

\* =================================================================== claims
\* a new WebSocket was created in this step
SocketCreated ==
    /\ ws' = "CONNECTING"
    /\ \/ ws # "CONNECTING"
       \/ orphans'["CONNECTING"] = orphans["CONNECTING"] + 1
\* a reconnect timer was started in this step
TimerStarted ==
    /\ timerPending'
    /\ ~timerPending \/ strayTimers' = strayTimers + 1
\* the client called close() on ws.current in this step
ClientCloses == ws = "OPEN" /\ ws' = "CLOSING"
NoLiveSocket == ws \notin LiveStates /\ OrphanCount = 0

\* C1: no binary audio frame is sent on the socket while the provider
\* readiness state is not `ready`.
C1_FramesOnlyWhenReady ==
    [][frameParity' # frameParity => sttState = "ready"]_vars

\* C7: a close with code 1008 starts no reconnect timer and sets the
\* do-not-reconnect state; that state is left only by reconnect(),
\* forceReconnect() or resetSession(), and while it lasts no socket is created,
\* whatever timer fires.
C7_PolicyCloseNeverReconnects ==
    [][/\ \A s \in Sockets :
            OnClose(s, ClosePolicy) =>
                /\ ~TimerStarted
                /\ timerPending' = timerPending /\ strayTimers' = strayTimers
                /\ isManuallyDisconnected'
       /\ isManuallyDisconnected /\ ~isManuallyDisconnected' =>
            Reconnect \/ ForceReconnect \/ ResetSession
       /\ isManuallyDisconnected /\ isManuallyDisconnected' => ~SocketCreated]_vars

\* C7 witness: a policy close arrived while a reconnect timer was pending; the
\* timer is still pending, the flag is set and no socket is alive.
C7_Witness ==
    /\ connectionError = ErrPolicy
    /\ isManuallyDisconnected
    /\ timerPending
    /\ connectionAttempts > 0
    /\ NoLiveSocket

\* C10: disconnect() leaves no reconnect timer pending and sets the
\* do-not-reconnect flag before it closes; the close it triggers starts no
\* reconnect timer, and no socket is created while the flag stays set.
C10_DisconnectCancelsTimers ==
    [][/\ Disconnect =>
            /\ ~timerPending' /\ strayTimers' = 0
            /\ isManuallyDisconnected'
       /\ \A s \in Sockets :
            OnClose(s, CloseNormal) /\ isManuallyDisconnected => ~TimerStarted
       /\ isManuallyDisconnected /\ isManuallyDisconnected' => ~SocketCreated]_vars

\* C8: the 5th abnormal closure in a row surfaces the max-attempts error and
\* leaves no reconnect scheduled.
C8_FifthFailureIsTerminal ==
    [][failStreak = MaxReconnect - 1 /\ failStreak' = MaxReconnect =>
          /\ connectionError' = ErrMaxAttempts
          /\ ~timerPending' /\ strayTimers' = 0]_vars

\* min(1000 * 2^k, 30000), as the claim states it
ClaimedBase(k) == IF 1000 * 2^k < 30000 THEN 1000 * 2^k ELSE 30000

\* C9: a reconnect scheduled at counter value k waits
\* min(1000 * 2^k, 30000) + jitter ms with jitter in [0, 1000); within a run
\* of failures with no open in between, a reconnect scheduled after the timer
\* of the one before it has fired is scheduled at a higher counter value and
\* waits at least as long, whatever the two jitters; a successful open resets
\* the counter to 0.
C9_BackoffLaw ==
    [][/\ lastSched' # lastSched /\ lastSched' # NoSched =>
            /\ lastSched'.k = connectionAttempts
            /\ lastSched'.k \in 0..(MaxReconnect - 1)
            /\ lastSched'.delay - ClaimedBase(lastSched'.k) \in 0..999
            /\ lastSched # NoSched /\ lastSched'.k > lastSched.k =>
                  lastSched'.delay >= lastSched.delay
            /\ lastSched # NoSched /\ ~timerPending =>
                  /\ lastSched'.k > lastSched.k
                  /\ lastSched'.delay >= lastSched.delay
       /\ \A s \in Sockets : OnOpen(s) => connectionAttempts' = 0 /\ lastSched' = NoSched]_vars

\* C9 witness: the 5th reconnect in a row is scheduled, at counter value 4,
\* with the largest jitter.
C9_Witness ==
    /\ lastSched = [k |-> 4, delay |-> 16999]
    /\ failStreak = 5
    /\ timerPending

\* an endSession promise resolves in this step: at once inside the call when
\* the captured isProcessingComplete is true, else when the fallback fires
EndCompletes ==
    \/ \E i \in 1..MaxEndCalls : EndSession(i) /\ isProcessingComplete
    \/ \E i \in 1..MaxEndCalls : FallbackFire(i)

\* C3: every endSession call eventually completes.
C3_EndSessionCompletes ==
    \A i \in 1..MaxEndCalls : (ends[i].pc = "waiting") ~> (ends[i].pc = "idle")

\* C3 witness: a call made while the socket was not open, on which no
\* session_summary ever arrived, has completed through the fallback.
C3_Witness ==
    /\ endCompleted = "timeout"
    /\ closeReq = NoClose
    /\ ~isProcessingComplete
    /\ \A i \in 1..MaxEndCalls : ends[i].pc = "idle"

\* C4: when endSession completes, ws.current is not left open: the client has
\* closed it, or the grace timer that will close it is pending.
C4_CompletionClosesSocket ==
    [][EndCompletes => ws' # "OPEN" \/ graceTimers' > 0]_vars

\* C5: when a session_summary arrived after end_session was sent and before
\* the fallback fired, the fallback does not perform the close.
C5_SummaryClosesByGrace ==
    [][\A i \in 1..MaxEndCalls :
          FallbackFire(i) /\ ends[i].sent /\ ends[i].summary => ~ClientCloses]_vars

\* C6: while a call that sent end_session waits and no session_summary has
\* arrived since, the client closes the socket only by a fallback timer (or
\* by an explicit disconnect()).
C6_NoEarlyClose ==
    [][\A i \in 1..MaxEndCalls :
          ends[i].pc = "waiting" /\ ends[i].sent /\ ~ends[i].summary /\ ClientCloses =>
              (\E j \in 1..MaxEndCalls : FallbackFire(j)) \/ Disconnect]_vars

\* C6 where no grace timer of an earlier session_summary is pending: the call
\* itself closes nothing, only a fallback timer (or disconnect()) closes the
\* socket while the call waits, and the fallback closes an open socket with
\* code 1000.
C6_NoEarlyCloseWithoutGrace ==
    [][\A i \in 1..MaxEndCalls :
          /\ ends[i].pc = "waiting" /\ ends[i].sent /\ ~ends[i].summary
                /\ graceTimers = 0 /\ ClientCloses =>
                (\E j \in 1..MaxEndCalls : FallbackFire(j)) \/ Disconnect
          /\ EndSession(i) => ws' = ws /\ closeReq' = closeReq
          /\ FallbackFire(i) /\ ws = "OPEN" =>
                /\ ws' = "CLOSING"
                /\ closeReq' = [code |-> 1000, reason |-> "Session ended (timeout)"]]_vars

\* C6, the path without a grace timer: end_session was sent, no session_summary ever arrived and the
\* fallback closed the socket.
C6_Witness ==
    /\ endCompleted = "timeout"
    /\ closeReq = [code |-> 1000, reason |-> "Session ended (timeout)"]
    /\ ws = "CLOSING"
    /\ ~isProcessingComplete
    /\ graceTimers = 0

\* C2: once set, the session-lock flag and the crisis flag are cleared by
\* resetSession only.
C2_LockIsSticky ==
    [][/\ isSessionLocked /\ ~isSessionLocked' => ResetSession
       /\ isCrisisMode /\ ~isCrisisMode' => ResetSession]_vars

\* C2 witness: the session is locked and a later risk_assessment has put the
\* risk level back to low.
C2_Witness ==
    /\ isSessionLocked
    /\ isCrisisMode
    /\ riskLevel = "low"

\* C11: at every moment at most one socket is CONNECTING or OPEN.
C11_AtMostOneLiveSocket ==
    (IF ws \in {"CONNECTING", "OPEN"} THEN 1 ELSE 0)
        + orphans["CONNECTING"] + orphans["OPEN"] <= 1

\* C12: a startRecording call made while nothing is recording and the
\* transport is not connected or the provider is not ready sets the
\* not-ready error and changes nothing else: no call is left in flight, no
\* audio resource is acquired and the recording flags stay false.
C12_NotReadyFailsFast ==
    [][\A i \in 1..MaxRecCalls :
          StartRecording(i) /\ ~isRecording /\ (~isConnected \/ sttState # "ready") =>
              /\ connectionError' = ErrSttNotReady
              /\ recPc' = recPc
              /\ ~isRecording' /\ isRecordingActiveRef' = isRecordingActiveRef
              /\ audioStream' = audioStream /\ audioContext' = audioContext
              /\ audioProcessor' = audioProcessor]_vars

\* C12 witness: connected with the provider in state error, the call was
\* refused and nothing is in flight or acquired.
C12_Witness ==
    /\ connectionError = ErrSttNotReady
    /\ isConnected /\ sttState = "error"
    /\ ~isRecording /\ ~audioStream /\ ~audioContext
    /\ \A i \in 1..MaxRecCalls : recPc[i] = "idle"

\* C13: at most one startRecording call is in flight, and at most one
\* microphone stream and one processing node are held at any time.
C13_SingleCapture ==
    /\ Cardinality({i \in 1..MaxRecCalls : recPc[i] # "idle"}) <= 1
    /\ (IF audioStream THEN 1 ELSE 0) + leakedStreams <= 1
    /\ (IF audioProcessor # "null" THEN 1 ELSE 0) + shadowProcessors + leakedProcessors <= 1

\* nothing is recording and every audio ref is cleared
RecordingStopped ==
    /\ ~isRecording /\ ~isRecordingActiveRef
    /\ audioProcessor = "null" /\ ~audioContext /\ ~audioStream

\* no microphone stream, audio context or processing node is held
NothingHeld ==
    /\ RecordingStopped
    /\ shadowProcessors = 0
    /\ leakedStreams = 0 /\ leakedContexts = 0 /\ leakedProcessors = 0

\* C14: stopRecording leaves the recording flags false and every processor
\* node, audio context and microphone stream released, surfaces no error, and
\* called a second time (or with nothing recording) changes nothing.
C14_StopReleasesAll ==
    [][StopRecording =>
          /\ NothingHeld'
          /\ connectionError' = connectionError
          /\ RecordingStopped => vars' = vars]_vars

\* C14 for the resources the refs name: stopRecording leaves the recording
\* flags false and the processor, context and stream refs released and
\* cleared, surfaces no error, and called in that state changes nothing at
\* all, so nothing is released twice.
C14_StopIsIdempotent ==
    [][StopRecording =>
          /\ RecordingStopped'
          /\ connectionError' = connectionError
          /\ RecordingStopped => vars' = vars]_vars

\* C15: when getUserMedia of a startRecording call is refused, the recording
\* flags are false before and after the refusal, the failure is surfaced in
\* connectionError, and the socket, the connection flag, the provider state
\* and the reconnect counter are unchanged.
C15_MicFailureNeverRecords ==
    [][\A i \in 1..MaxRecCalls :
          GetUserMediaDone(i, FALSE) =>
              /\ ~isRecording /\ ~isRecordingActiveRef
              /\ ~isRecording' /\ ~isRecordingActiveRef'
              /\ connectionError' = ErrRecording
              /\ UNCHANGED <<sockVars, isConnected, sttState, connectionAttempts>>]_vars

\* C16: every audio frame handed to the socket holds at least 800 samples.
C16_FramesHaveMinimumLength ==
    \A j \in 1..Len(sentLens) : sentLens[j] >= 800

\* C16 witness: at 96000 Hz the fallback strategy has sent one frame, buffered
\* over two callbacks.
C16_Witness ==
    /\ dspKind = "script" /\ nativeRate = 96000
    /\ sampleCounter = 2 * ScriptBufferSize
    /\ sentLens = <<1366>>
    /\ pcmBuffer = <<>>

\* C17: the decimation step of the strategy in use is
\* floor(nativeRate / 16000), and one second of native input leaves exactly
\* 16000 kept samples.
C17_DecimationMatchesRate ==
    dspKind # "none" /\ sampleCounter = 0 =>
        /\ DownsampleRatio(dspKind, nativeRate) = nativeRate \div 16000
        /\ Len(KeptSamples(0, nativeRate, DownsampleRatio(dspKind, nativeRate))) = 16000

\* the first n native samples decimated by 3 and converted, in order
Decimated(n) == [j \in 1..((n + 2) \div 3) |-> ToInt16(InputSample(3 * (j - 1)))]

\* C18: at 48000 Hz a fresh worklet resampler fed N native samples has emitted
\* floor(ceil(N / 3) / 800) frames of exactly 800 samples, and the frames
\* followed by the buffered rest are the decimated input in order.
C18_WorkletFramesExact ==
    dspKind = "worklet" /\ nativeRate = 48000 =>
        /\ Len(frames) = ((sampleCounter + 2) \div 3) \div 800
        /\ \A f \in 1..Len(frames) : Len(frames[f]) = 800
        /\ Merged(frames) \o buffer = Decimated(sampleCounter)

\* C18 witness: 2400 native samples have yielded exactly one frame and
\* nothing is buffered.
C18_Witness ==
    /\ dspKind = "worklet" /\ nativeRate = 48000
    /\ sampleCounter = 2400
    /\ Len(frames) = 1 /\ Len(frames[1]) = 800
    /\ buffer = <<>>
\* C19: in every state, handling a crisis_detected message sets the crisis
\* flag and the risk level critical, and sets the lock when the message has
\* session_locked true.
C19_CrisisAlwaysEscalates ==
    [][\A m \in CrisisMsgs :
          \/ /\ isCrisisMode'
             /\ riskLevel' = "critical"
             /\ (m.session_locked => isSessionLocked')
          \/ ~OnMessage(m)]_vars

\* C19 witness: the crisis state is set while the provider state is error, a
\* connection error is shown and an endSession call is waiting.
C19_Witness ==
    /\ isCrisisMode /\ riskLevel = "critical" /\ isSessionLocked
    /\ sttState = "error"
    /\ connectionError # "null"
    /\ \E i \in DOMAIN ends : ends[i].pc = "waiting"

\* C20: while the session lock is set, no startRecording call goes on to
\* capture and no audio frame is sent.
C20_LockPreventsRecording ==
    [][isSessionLocked /\ isSessionLocked' =>
          /\ frameParity' = frameParity
          /\ \A i \in DOMAIN recPc :
                recPc'[i] = "getUserMedia" => recPc[i] = "getUserMedia"]_vars

\* C21: handling a session_summary or a crisis_detected message marks
\* processing complete and starts a grace timer, and leaves the socket as it
\* was; the grace timer, firing on an open socket, closes it with code 1000.
C21_EndSignalsScheduleClose ==
    [][/\ \A m \in SummaryMsgs \cup CrisisMsgs :
             OnMessage(m) =>
                 /\ isProcessingComplete'
                 /\ graceTimers' = graceTimers + 1
                 /\ ws' = ws
       /\ GraceTimerFire /\ ws = "OPEN" =>
             ws' = "CLOSING" /\ closeReq'.code = CloseNormal]_vars

\* the text holds one of the keywords `free tier`, `concurrent`, `limit`
HasQuotaKeyword(text) ==
    \E kw \in {"free tier", "concurrent", "limit"} : Includes(text, kw)

\* C23: an error message whose text holds a quota keyword sets the
\* do-not-reconnect flag; while the flag stays set no close of any socket with
\* any code starts a reconnect timer and no firing reconnect timer creates a
\* socket.
C23_QuotaErrorSuppressesReconnect ==
    [][/\ \A m \in ErrorMsgs :
             HasQuotaKeyword(m.text) /\ OnMessage(m) => isManuallyDisconnected'
       /\ isManuallyDisconnected /\ isManuallyDisconnected' =>
             /\ (\E s \in Sockets, c \in AllCodes : OnClose(s, c)) => ~TimerStarted
             /\ (\E b \in BOOLEAN : ReconnectTimerFire(b)) => ~SocketCreated]_vars

\* C23 witness: after a rate-limit error the socket has closed normally while
\* a reconnect timer started earlier is still pending, and no socket is alive.
C23_Witness ==
    /\ connectionError = "rate limit exceeded"
    /\ isManuallyDisconnected
    /\ timerPending
    /\ NoLiveSocket

\* C24: the close answering the grace timer's close(1000) after a
\* session_summary starts no reconnect timer.
C24_GracefulCloseEndsSession ==
    [][/\ ws = "CLOSING"
       /\ closeReq = [code |-> CloseNormal, reason |-> "Session processing complete"]
       /\ OnClose("cur", CloseNormal)
       => ~TimerStarted]_vars

\* C25: the recording flag becomes true only in a state where the transport
\* is connected and the provider state is ready.
C25_RecordingStartsOnlyWhenReady ==
    [][~isRecording /\ isRecording' => isConnected /\ sttState = "ready"]_vars

\* C26: while an endSession call that sent end_session is in flight, no
\* binary audio frame is handed to the socket.
C26_NoFramesAfterEndSession ==
    [][(\E i \in DOMAIN ends : ends[i].pc = "waiting" /\ ends[i].sent) =>
          frameParity' = frameParity]_vars

\* the readiness graph: connecting only from disconnected; ready from
\* connecting, or from disconnected on a connection_established reporting
\* ready; error only from connecting or ready; disconnected only on a close
ReadinessEdge(from, to) ==
    \/ to = "connecting" /\ from = "disconnected"
    \/ to = "ready" /\ from = "connecting"
    \/ /\ to = "ready" /\ from = "disconnected"
       /\ OnMessage([Msg("connection_established") EXCEPT !.stt_state = "ready"])
    \/ to = "error" /\ from \in {"connecting", "ready"}
    \/ to = "disconnected" /\ \E s \in Sockets, c \in AllCodes : OnClose(s, c)

\* C27: every change of the provider readiness state is an edge of the
\* readiness graph.
C27_ReadinessFollowsGraph ==
    [][sttState' # sttState => ReadinessEdge(sttState, sttState')]_vars

\* C29: resetSession leaves the session idle: the recording flags are false
\* after it.
C29_ResetLeavesIdle ==
    [][ResetSession => ~isRecording' /\ ~isRecordingActiveRef']_vars

\* C22: a message that cannot be parsed changes none of the log, the
\* provider state, the risk snapshot, the crisis and lock flags, the
\* connection state and the reconnect counter, and leaves the socket as it was.
C22_UnparsableIsDropped ==
    [][\A m \in DataMsgs :
          m.type = "malformed" /\ OnMessageData(m) =>
              UNCHANGED <<messages, finalTranscripts, sttState, sttInfo, riskLevel,
                          riskInfo, isCrisisMode, isSessionLocked, isConnected,
                          connectionError, connectionAttempts, isManuallyDisconnected,
                          sockVars, timerVars>>]_vars

\* C22 witness: of two message events the first left no trace and the second,
\* an stt_ready, is the only entry of the log and has set the provider state.
C22_Witness ==
    /\ delivered = 2
    /\ Len(messages) = 1
    /\ messages[1].seq = 2 /\ messages[1].msg.type = "stt_ready"
    /\ sttState = "ready" /\ sttInfo.provider = "assemblyai"
    /\ riskInfo = InitialRiskInfo /\ ~hasReceivedTranscription
    /\ ws = "OPEN"

\* the readiness state the event kinds are to produce
ClaimedReadiness(m, prev) ==
    IF m.type = "connection_established"
    THEN (IF m.stt_state = "ready" THEN "ready" ELSE "connecting")
    ELSE IF m.type = "stt_ready" THEN "ready"
    ELSE IF m.type = "stt_error" THEN "error"
    ELSE prev

\* C28: every message leaves the readiness state its kind determines, an
\* stt_error records its message, every other kind leaves the state alone, and
\* a socket close sets disconnected from every state.
C28_ReadinessIsFunctionOfEvents ==
    [][/\ \A m \in DataMsgs :
             OnMessageData(m) =>
                 /\ sttState' = ClaimedReadiness(m, sttState)
                 /\ m.type = "stt_error" => sttInfo'.error_message = m.message
       /\ (\E c \in AllCodes : OnClose("cur", c)) => sttState' = "disconnected"]_vars

\* C28 witness: an stt_error has set the error state and recorded its message
\* after the provider had been ready.
C28_Witness ==
    /\ sttState = "error"
    /\ sttInfo.error_message = "provider failed"
    /\ Len(messages) = 2
    /\ messages[1].msg.type = "stt_ready" /\ messages[2].msg.type = "stt_error"

\* C30: resetSession leaves the log and the final-transcript list empty, the
\* risk snapshot at score 0, level low, calm, without features,
\* recommendations or window context, the crisis and lock flags false, the
\* reconnect counter 0, no connection error, and the processing-complete and
\* do-not-reconnect flags false.
C30_ResetRestoresInitialData ==
    [][ResetSessionData =>
          /\ messages' = <<>> /\ finalTranscripts' = <<>>
          /\ riskLevel' = "low"
          /\ riskInfo'.score = 0 /\ riskInfo'.mentalState = "calm"
          /\ riskInfo'.emotions = <<>> /\ riskInfo'.recommendations = <<>>
          /\ riskInfo'.windowContext = "undefined"
          /\ ~isCrisisMode' /\ ~isSessionLocked'
          /\ connectionAttempts' = 0
          /\ connectionError' = "null"
          /\ ~isProcessingComplete'
          /\ ~isManuallyDisconnected']_vars

\* C30 witness: a reset came after a final transcription and a second
\* message: the partial text is still shown, the transcription mark, the lists
\* and the snapshot are back at their initial values.
C30_Witness ==
    /\ delivered = 2
    /\ sttInfo.lastPartial = "final text" /\ ~hasReceivedTranscription
    /\ messages = <<>> /\ finalTranscripts = <<>>
    /\ riskInfo = InitialRiskInfo /\ riskLevel = "low"
    /\ ~isCrisisMode /\ ~isSessionLocked

\* the final transcription whose text the live transcript holds
ShownFinal == finalTranscripts[Len(finalTranscripts)].msg

\* C31: while the live transcript text is that of the last final
\* transcription, a partial transcription with an earlier timestamp does not
\* replace it.
C31_FinalNotSupersededByEarlierPartial ==
    [][\A m \in DataMsgs :
          /\ finalTranscripts # <<>>
          /\ sttInfo.lastPartial = ShownFinal.transcript
          /\ m.type = "transcription" /\ ~m.is_final
          /\ m.timestamp < ShownFinal.timestamp
          /\ OnMessageData(m)
          => sttInfo'.lastPartial = sttInfo.lastPartial]_vars

\* C32: a risk_warning message sets score, level, mental state, explanation,
\* recommendations and last-updated time of the risk snapshot from the
\* message and leaves the detected features, the window context and the crisis
\* and lock flags as they were.
C32_WarningIsPartialUpdate ==
    [][\A m \in DataMsgs :
          m.type = "risk_warning" /\ OnMessageData(m) =>
              /\ riskInfo'.score = m.score
              /\ riskLevel' = m.risk_level
              /\ riskInfo'.mentalState = OrElse(m.mental_state, "stressed")
              /\ riskInfo'.explanation = m.explanation
              /\ riskInfo'.recommendations = m.recommendations
              /\ riskInfo'.lastUpdated = m.timestamp
              /\ riskInfo'.emotions = riskInfo.emotions
              /\ riskInfo'.windowContext = riskInfo.windowContext
              /\ UNCHANGED <<isCrisisMode, isSessionLocked>>]_vars

\* C32 witness: a warning came after an assessment that carried features and
\* a window context: the snapshot has the warning's score and level and the
\* assessment's features and window context.
C32_Witness ==
    /\ riskLevel = "medium" /\ riskInfo.score = 5
    /\ riskInfo.explanation = "warned"
    /\ riskInfo.emotions = <<"fear">>
    /\ riskInfo.windowContext = "window"

\* C33: every well-formed message, whatever its type, is appended once at
\* the end of the log; the log changes in no other way except that
\* clearMessages and resetSession empty it; its entries are in arrival order.
C33_LogIsAppendOnly ==
    [][/\ \A m \in DataMsgs :
             m.type # "malformed" /\ OnMessageData(m) =>
                 messages' = Append(messages, Entry(delivered + 1, m))
       /\ \/ messages' = messages
          \/ \E m \in DataMsgs :
                OnMessageData(m) /\ messages' = Append(messages, Entry(delivered + 1, m))
          \/ messages' = <<>> /\ (ClearMessages \/ ResetSessionData)
       /\ \A i, j \in 1..Len(messages') : i < j => messages'[i].seq < messages'[j].seq]_vars

\* C33 witness: two messages, the first of a type the switch does not know,
\* are in the log in arrival order after the socket has closed.
C33_Witness ==
    /\ Len(messages) = 2
    /\ messages[1].seq = 1 /\ messages[1].msg.type = "session_locked"
    /\ messages[2].seq = 2 /\ messages[2].msg.type = "audio_received"
    /\ ~isConnected /\ ws = "CLOSED"

\* the frames the resampler emitted in this step
FramesEmitted == SubSeq(frames', Len(frames) + 1, Len(frames'))

\* C34: a frame emitted while the socket is not open is not handed to the
\* socket, then or later: every step hands over either nothing or the frames
\* emitted in that very step, and nothing while the socket is not open; a
\* dropped frame changes no connection, provider, recording or risk state.
C34_FramesDroppedWhileNotOpen ==
    [][/\ ws # "OPEN" => sentLens' = sentLens /\ frameParity' = frameParity
       /\ sentLens' \in {sentLens, sentLens \o Lens(FramesEmitted)}
       /\ ws # "OPEN" /\ frames' # frames =>
             UNCHANGED <<sockVars, isConnected, sttState, connectionError,
                         connectionAttempts, isManuallyDisconnected, timerVars,
                         isRecording, isRecordingActiveRef, riskVars>>]_vars

\* C34 witness: of two frames the worklet emitted one was dropped while the
\* socket was closed, the other was sent; the socket is open again.
C34_Witness ==
    /\ dspKind = "worklet"
    /\ Len(frames) = 2 /\ sentLens = <<800>>
    /\ buffer = <<>>
    /\ ws = "OPEN" /\ isConnected

\* the transport is marked not connected and no socket is connecting or open
IsDisconnected ==
    /\ ~isConnected
    /\ ws \notin {"CONNECTING", "OPEN"}
    /\ orphans["CONNECTING"] = 0 /\ orphans["OPEN"] = 0

\* C35: after disconnect() the session is eventually disconnected, unless an
\* explicit reconnect comes first.
C35_DisconnectEventuallyDisconnects ==
    isManuallyDisconnected ~> (IsDisconnected \/ ~isManuallyDisconnected)

\* the reconnect timers pending
PendingReconnectTimers == (IF timerPending THEN 1 ELSE 0) + strayTimers

\* C36: the reconnect counter is within 0..5 and at most one reconnect timer
\* is pending.
C36_CounterAndTimerBounded ==
    /\ connectionAttempts \in 0..MaxReconnect
    /\ PendingReconnectTimers <= 1

\* C39: when startRecording fails after the microphone stream was obtained,
\* the resource state is that after stopRecording: no stream, context or node
\* is held.
C39_FailureReleasesResources ==
    [][(\E i \in 1..MaxRecCalls : AudioContextFails(i) \/ WorkletNodeFails(i)) =>
          NothingHeld']_vars

\* C38: whenever the transport is marked not connected the provider
\* readiness state is disconnected.
C38_ReadinessConsistentWithTransport ==
    ~isConnected => sttState = "disconnected"

\* C40: once endSession has completed and no call is in flight, no timer it
\* started is pending: neither a fallback timer nor a 100 ms poll timer.
C40_NoTimerAfterEndSession ==
    (endCompleted # "none" /\ \A i \in 1..MaxEndCalls : ends[i].pc = "idle") =>
        pollTimers = 0

\* C37: after the component unmounts, the socket is eventually neither
\* connecting nor open and no reconnect timer is pending.
Released == ws \notin {"CONNECTING", "OPEN"} /\ ~timerPending
C37_UnmountReleasesResources == unmounted ~> Released
====
